---------------------------- MODULE Spec2Model ----------------------------
(***************************************************************************)
(* Model of the batch ETL pipelines of backend/etl_scripts/cleaning.py     *)
(* (airports, airlines, flights, passengers, travel-agency transactions):  *)
(* one CLI run = dispatch in main, then the phases of the chosen pipeline. *)
(* Cells are strings as pandas holds them; a missing cell is NaN.  The     *)
(* staging store, the log sinks and the input file are the environment:    *)
(* their outcomes are chosen nondeterministically at each call.            *)
(***************************************************************************)
EXTENDS Integers, Sequences, FiniteSets, TLC

VARIABLES
    pipeline,       \* sys.argv[1].lower() once main has dispatched, "" before
    pc,             \* the next step of the run
    phases,         \* the values CURRENT_PHASE has taken, in order (set_phase)
    input,          \* the table read_csv returned (kept to state claims)
    df,             \* the working DataFrame, a sequence of rows
    df_clean,       \* rows that passed validation
    df_quarantine,  \* rows that failed validation
    staged,         \* the insert/upsert calls made on staging tables, in order
    successful,     \* number of upserts that returned
    failed,         \* keys of the rows whose upsert raised and was caught
    files,          \* output CSV files written
    summary,        \* the counts emitted in SUMMARY, NoSummary before
    outcome,        \* "running", "completed", "returned" or "raised"
    failure,        \* the call whose exception ended the run or was caught by
                    \* EXTRACT: "read_csv", "log_file", "select", "upsert",
                    \* "rpc", "astype_int"; "" when there is none
    exit_code       \* process exit code, NoExit while running

vars == <<pipeline, pc, phases, input, df, df_clean, df_quarantine, staged,
          successful, failed, files, summary, outcome, failure, exit_code>>

\* Largest number of data rows in an input CSV.
MaxRows == 3

NoSummary == [emitted |-> FALSE]
NoExit == -1

(***************************************************************************)
(* Strings.  TLC strings support Len, SubSeq and \o; a character is a      *)
(* string of length 1.                                                     *)
(***************************************************************************)
Ch(s, i) == SubSeq(s, i, i)
Rest(s) == SubSeq(s, 2, Len(s))

Lowers == "abcdefghijklmnopqrstuvwxyz"
Uppers == "ABCDEFGHIJKLMNOPQRSTUVWXYZ"
Digits == "0123456789"
CharSet(s) == {Ch(s, i) : i \in 1..Len(s)}
LowerSet == CharSet(Lowers)
UpperSet == CharSet(Uppers)
DigitSet == CharSet(Digits)
AlphaSet == LowerSet \cup UpperSet
AlnumSet == AlphaSet \cup DigitSet
SpaceSet == {" ", "\t"}

UpperC(c) ==
    IF c \in LowerSet THEN Ch(Uppers, CHOOSE i \in 1..Len(Lowers) : Ch(Lowers, i) = c) ELSE c
LowerC(c) ==
    IF c \in UpperSet THEN Ch(Lowers, CHOOSE i \in 1..Len(Uppers) : Ch(Uppers, i) = c) ELSE c

RECURSIVE MapStr(_, _)
MapStr(F(_), s) == IF s = "" THEN "" ELSE F(Ch(s, 1)) \o MapStr(F, Rest(s))

\* str.upper / str.lower
upper(s) == MapStr(UpperC, s)
lower(s) == MapStr(LowerC, s)

\* str.strip
RECURSIVE lstrip(_)
lstrip(s) == IF s # "" /\ Ch(s, 1) \in SpaceSet THEN lstrip(Rest(s)) ELSE s
RECURSIVE rstrip(_)
rstrip(s) ==
    IF s # "" /\ Ch(s, Len(s)) \in SpaceSet THEN rstrip(SubSeq(s, 1, Len(s) - 1)) ELSE s
strip(s) == rstrip(lstrip(s))

\* str.replace(r"\s+", " ", regex=True)
RECURSIVE collapse_ws(_)
collapse_ws(s) ==
    IF s = "" THEN ""
    ELSE IF Ch(s, 1) \in SpaceSet THEN " " \o collapse_ws(lstrip(s))
    ELSE Ch(s, 1) \o collapse_ws(Rest(s))

\* str.title: a cased character is uppercased when the character before it
\* is not cased, lowercased otherwise
RECURSIVE title_from(_, _)
title_from(s, prev_cased) ==
    IF s = "" THEN ""
    ELSE LET c == Ch(s, 1) IN
         IF c \in AlphaSet
         THEN (IF prev_cased THEN LowerC(c) ELSE UpperC(c)) \o title_from(Rest(s), TRUE)
         ELSE c \o title_from(Rest(s), FALSE)
title(s) == title_from(s, FALSE)

\* str.capitalize: first character uppercased, the rest lowercased
capitalize(s) == IF s = "" THEN "" ELSE UpperC(Ch(s, 1)) \o lower(Rest(s))

StartsWith(s, p) == Len(s) >= Len(p) /\ SubSeq(s, 1, Len(p)) = p

\* str.replace(old, new): non-overlapping occurrences, left to right
RECURSIVE replace(_, _, _)
replace(s, old, new) ==
    IF Len(s) < Len(old) \/ old = "" THEN s
    ELSE IF StartsWith(s, old)
         THEN new \o replace(SubSeq(s, Len(old) + 1, Len(s)), old, new)
         ELSE Ch(s, 1) \o replace(Rest(s), old, new)

\* str.replace(r"'S\b", "'s", regex=True)
RECURSIVE fix_apostrophe_s(_)
fix_apostrophe_s(s) ==
    IF Len(s) < 2 THEN s
    ELSE IF StartsWith(s, "'S") /\ (Len(s) = 2 \/ Ch(s, 3) \notin AlnumSet \cup {"_"})
         THEN "'s" \o fix_apostrophe_s(SubSeq(s, 3, Len(s)))
         ELSE Ch(s, 1) \o fix_apostrophe_s(Rest(s))

AllIn(s, set) == \A i \in 1..Len(s) : Ch(s, i) \in set

(***************************************************************************)
(* Cells.  read_csv yields a string, or NaN for an empty field.            *)
(***************************************************************************)
NaN == "<NaN>"
\* Series.astype(str): NaN becomes the text "nan"
astype_str(v) == IF v = NaN THEN "nan" ELSE v

\* The rows of a table carry the pandas index label of the CSV row.
WithIndex(rows) == [i \in 1..Len(rows) |-> [c \in DOMAIN rows[i] \cup {"idx"} |->
                        IF c = "idx" THEN i - 1 ELSE rows[i][c]]]
Tables(kinds) == UNION {[1..n -> kinds] : n \in 1..MaxRows}
\* pd.read_csv either returns a table or raises (file missing or unreadable)
ReadOutcomes == {"table", "raises"}

(***************************************************************************)
(* Logging (set_phase, log_event, log_event_supabase).  Each phase opens   *)
(* with set_phase: CURRENT_PHASE is assigned, the header is appended to    *)
(* the local log file outside any try, then the record is inserted into    *)
(* the remote log table inside try/except.                                 *)
(***************************************************************************)
SinkOutcomes == {"ok", "remote_fails", "file_fails"}

set_phase(phase_name) == phases' = Append(phases, upper(phase_name))

\* An exception that nothing catches leaves main: traceback, exit status 1.
Raise(exception) == outcome' = "raised" /\ exit_code' = 1 /\ pc' = "exit" /\ failure' = exception
\* Going on with the next phase where the pipeline function returns.
Return_falls_through(caught) ==
    pc' = "TRANSFORMATION" /\ failure' = caught /\ UNCHANGED <<outcome, exit_code>>
\* The pipeline function returns early; main returns; exit status 0.
Return(caught) == outcome' = "returned" /\ exit_code' = 0 /\ pc' = "exit" /\ failure' = caught
Complete == outcome' = "completed" /\ exit_code' = 0 /\ pc' = "exit" /\ UNCHANGED failure
Goto(step) == pc' = step /\ UNCHANGED <<outcome, exit_code, failure>>

\* log_event_supabase: the insert is inside try/except, so both of its
\* outcomes return normally and leave the run's state alone
log_event_supabase(sink) == sink \in {"ok", "remote_fails"}

tables == <<input, df, df_clean, df_quarantine>>
loadvars == <<staged, successful, failed>>

(***************************************************************************)
(* AIRPORTS pipeline                                                       *)
(***************************************************************************)
AirportRow(k, n, c, y) == [AirportKey |-> k, AirportName |-> n, City |-> c, Country |-> y]
RawAirportRows ==
    { AirportRow("JFK", "kennedy  intl", "new york", "USA"),
      AirportRow(" lax ", "Los Angeles", "City of angels", "U.S."),
      AirportRow("JFK", "Kennedy", "New York", NaN),
      AirportRow(NaN, "Heathrow", "London", "UK"),
      AirportRow("LHR", "  ", "London", "uk"),
      AirportRow("LH", "St John'S", "London", "United Kingdom"),
      AirportRow("ORD", NaN, NaN, "united states of america") }

fix_small_words(text) ==
    replace(replace(replace(replace(replace(text,
        " And ", " and "), " Of ", " of "), " The ", " the "), " At ", " at "), " In ", " in ")

\* A table applied link by link: a value goes to "Us" before it goes on.
country_replacements_chained(v) ==
    IF v \in {"Usa", "U.S.A.", "U.S.", "United States Of America"} THEN "Us"
    ELSE IF v = "Us" THEN "United States"
    ELSE IF v \in {"Uk", "U.K."} THEN "United Kingdom"
    ELSE v
country_replacements(v) ==
    IF v \in {"Usa", "Us", "U.S.A.", "U.S.", "United States Of America"} THEN "United States"
    ELSE IF v \in {"Uk", "U.K."} THEN "United Kingdom"
    ELSE v

airports_transform(r) ==
    LET stripped(col) == strip(astype_str(r[col]))
        spaced(col) == collapse_ws(stripped(col))
    IN [idx |-> r.idx,
        AirportKey |-> upper(stripped("AirportKey")),
        AirportName |-> fix_small_words(fix_apostrophe_s(title(spaced("AirportName")))),
        City |-> fix_small_words(fix_apostrophe_s(title(spaced("City")))),
        Country |-> country_replacements(fix_small_words(title(spaced("Country"))))]

MISSING_STRINGS == {"", "nan", "none", "null", "NaN", "None", "Null"}
is_missing(v) == strip(astype_str(v)) \in MISSING_STRINGS

airportkey_valid(r) ==
    /\ ~is_missing(r.AirportKey)
    /\ Len(r.AirportKey) = 3 /\ AllIn(r.AirportKey, UpperSet)

quarantine_mask(r) ==
    \/ ~airportkey_valid(r)
    \/ is_missing(r.AirportName)
    \/ is_missing(r.City)
    \/ is_missing(r.Country)
clean_mask(r) == ~quarantine_mask(r)

\* A de-duplication that drops nothing.
drop_duplicates_keeps_all(rows, key) == rows
\* DataFrame.drop_duplicates(subset=[key], keep="first")
RECURSIVE drop_duplicates(_, _)
drop_duplicates(rows, key) ==
    IF rows = <<>> THEN <<>>
    ELSE LET front == drop_duplicates(SubSeq(rows, 1, Len(rows) - 1), key)
             last == rows[Len(rows)]
         IN IF \E i \in 1..Len(front) : front[i][key] = last[key]
            THEN front ELSE Append(front, last)

column_map(r) ==
    [airportkey |-> r.AirportKey, airportname |-> r.AirportName,
     city |-> r.City, country |-> r.Country]

chunk_size == 500
InsertOutcomes == {"data", "error", "no_data", "exception"}
NumChunks(n) == (n + chunk_size - 1) \div chunk_size
Chunk(records, k) ==
    SubSeq(records, (k - 1) * chunk_size + 1,
           IF k * chunk_size < Len(records) THEN k * chunk_size ELSE Len(records))

\* upload_dataframe_to_supabase: one insert per chunk, every outcome of a
\* chunk is logged and the loop goes on
upload_dataframe_to_supabase(records, table_name, results) ==
    staged' = staged \o [k \in 1..NumChunks(Len(records)) |->
                 [table |-> table_name, op |-> "insert",
                  records |-> Chunk(records, k), result |-> results[k]]]

airports_EXTRACT ==
    /\ pipeline = "airports" /\ pc = "EXTRACT"
    /\ set_phase("EXTRACT")
    /\ \E sink \in SinkOutcomes, read \in ReadOutcomes :
        IF sink = "file_fails"
        THEN Raise("log_file") /\ UNCHANGED tables
        ELSE /\ log_event_supabase(sink)
             /\ IF read = "raises"
                THEN Return("read_csv") /\ UNCHANGED tables
                ELSE /\ \E file \in Tables(RawAirportRows) :
                        input' = WithIndex(file) /\ df' = WithIndex(file)
                     /\ Goto("TRANSFORMATION")
                     /\ UNCHANGED <<df_clean, df_quarantine>>
    /\ UNCHANGED <<pipeline, loadvars, files, summary>>

airports_TRANSFORMATION ==
    /\ pipeline = "airports" /\ pc = "TRANSFORMATION"
    /\ set_phase("TRANSFORMATION")
    /\ \E sink \in SinkOutcomes :
        IF sink = "file_fails"
        THEN Raise("log_file") /\ UNCHANGED df
        ELSE /\ log_event_supabase(sink)
             /\ df' = [i \in DOMAIN df |-> airports_transform(df[i])]
             /\ Goto("VALIDATION")
    /\ UNCHANGED <<pipeline, input, df_clean, df_quarantine, loadvars, files, summary>>

airports_VALIDATION ==
    /\ pipeline = "airports" /\ pc = "VALIDATION"
    /\ set_phase("VALIDATION")
    /\ \E sink \in SinkOutcomes :
        IF sink = "file_fails"
        THEN Raise("log_file") /\ UNCHANGED <<df_clean, df_quarantine>>
        ELSE /\ log_event_supabase(sink)
             /\ df_clean' = SelectSeq(df, clean_mask)
             /\ df_quarantine' = SelectSeq(df, quarantine_mask)
             /\ Goto("TRANSFORM-CLEANED")
    /\ UNCHANGED <<pipeline, input, df, loadvars, files, summary>>

airports_EXPORT ==
    /\ pipeline = "airports" /\ pc = "TRANSFORM-CLEANED"
    /\ set_phase("TRANSFORM-CLEANED")
    /\ \E sink \in SinkOutcomes :
        IF sink = "file_fails"
        THEN Raise("log_file") /\ UNCHANGED files
        ELSE /\ log_event_supabase(sink)
             /\ files' = files \cup {"cleaned_airports.csv", "quarantine_airports.csv"}
             /\ Goto("LOAD")
    /\ UNCHANGED <<pipeline, tables, loadvars, summary>>

airports_LOAD ==
    /\ pipeline = "airports" /\ pc = "LOAD"
    /\ set_phase("LOAD")
    /\ \E sink \in SinkOutcomes :
        IF sink = "file_fails"
        THEN Raise("log_file") /\ UNCHANGED staged
        ELSE LET renamed == [i \in DOMAIN df_clean |-> column_map(df_clean[i])]
                 clean_for_supabase == drop_duplicates(renamed, "airportkey") IN
             /\ log_event_supabase(sink)
             /\ \E results \in [1..NumChunks(Len(clean_for_supabase)) -> InsertOutcomes] :
                    upload_dataframe_to_supabase(clean_for_supabase, "staging_airports", results)
             /\ Goto("SUMMARY")
    /\ UNCHANGED <<pipeline, tables, successful, failed, files, summary>>

airports_SUMMARY ==
    /\ pipeline = "airports" /\ pc = "SUMMARY"
    /\ set_phase("SUMMARY")
    /\ \E sink \in SinkOutcomes :
        IF sink = "file_fails"
        THEN Raise("log_file") /\ UNCHANGED summary
        ELSE /\ log_event_supabase(sink)
             /\ summary' = [emitted |-> TRUE, clean |-> Len(df_clean),
                            quarantine |-> Len(df_quarantine)]
             /\ Complete
    /\ UNCHANGED <<pipeline, tables, loadvars, files>>

run_airports_pipeline ==
    \/ airports_EXTRACT
    \/ airports_TRANSFORMATION
    \/ airports_VALIDATION
    \/ airports_EXPORT
    \/ airports_LOAD
    \/ airports_SUMMARY

(***************************************************************************)
(* AIRLINES pipeline                                                       *)
(***************************************************************************)
AirlineRow(k, n, a) == [airlinekey |-> k, airlinename |-> n, alliance |-> a]
RawAirlineRows ==
    { AirlineRow("aa", "american  airlines", "oneworld"),
      AirlineRow("VS", "Virgin Atlantic", "star alliance"),
      AirlineRow("AZ", "alitalia", "skyteam"),
      AirlineRow(NaN, "delta air-lines", NaN),
      AirlineRow("AA", "Amer!can", "banana"),
      AirlineRow("DELTA", "Delta", " OneWorld "),
      AirlineRow("ba", "British Airways", "sky team"),
      AirlineRow("KL", NaN, "SKYTEAM") }

\* The header of the CSV (after df.columns.str.strip().str.lower()): the
\* three required columns, or one of them absent.
required_columns == {"airlinekey", "airlinename", "alliance"}
AirlineHeaders == {required_columns} \cup {required_columns \ {c} : c \in required_columns}
Restrict(r, cols) == [c \in cols |-> r[c]]

\* The loop over required_columns: airlinename is copied from airlinekey,
\* alliance defaults to "None"
add_missing_columns(r) ==
    [c \in DOMAIN r \cup {"airlinename", "alliance"} |->
        IF c \in DOMAIN r THEN r[c]
        ELSE IF c = "airlinename" THEN r.airlinekey ELSE "None"]

alliance_mapping(v) ==
    IF v \in {"", "nan", "none"} THEN "None"
    ELSE IF v = "oneworld" THEN "Oneworld"
    ELSE IF v \in {"sky team", "skyteam"} THEN "SkyTeam"
    ELSE IF v \in {"star alliance", "staralliance"} THEN "Star Alliance"
    ELSE v

valid_alliances == {"Oneworld", "SkyTeam", "Star Alliance", "None"}
fillna(v, value) == IF v = NaN THEN value ELSE v

\* A normalizer without the final coercion to 'None'.
normalize_alliance_unchecked(v) == alliance_mapping(strip(astype_str(fillna(v, "None"))))
normalize_alliance(v) ==
    LET mapped == alliance_mapping(strip(astype_str(fillna(v, "None"))))
    IN IF mapped \in valid_alliances THEN mapped ELSE "None"

\* No manual override.
alliance_fixes_none(key, alliance) == alliance
alliance_fixes(key, alliance) ==
    IF key = "VS" THEN "SkyTeam"
    ELSE IF key = "AZ" THEN "None"
    ELSE alliance

airlines_transform(r) ==
    LET key == upper(strip(astype_str(r.airlinekey)))
    IN [idx |-> r.idx,
        airlinekey |-> key,
        airlinename |-> collapse_ws(title(strip(astype_str(r.airlinename)))),
        alliance |-> alliance_fixes(key, normalize_alliance(r.alliance))]

airlinekey_valid(r) ==
    Len(r.airlinekey) \in {2, 3} /\ AllIn(r.airlinekey, UpperSet \cup DigitSet)
airlinename_valid(r) ==
    r.airlinename # "" /\ AllIn(r.airlinename, AlnumSet \cup SpaceSet \cup {".", "-", "&"})

\* Series.duplicated(keep="first") of column key, for the row at position i
duplicated(rows, key, i) == \E j \in 1..(i - 1) : rows[j][key] = rows[i][key]

\* df[mask]: the rows whose mask is true, in row order
RECURSIVE Masked(_, _, _)
Masked(rows, mask, i) ==
    IF i > Len(rows) THEN <<>>
    ELSE (IF i \in mask THEN <<rows[i]>> ELSE <<>>) \o Masked(rows, mask, i + 1)

airlines_all_valid(rows) ==
    {i \in 1..Len(rows) :
        airlinekey_valid(rows[i]) /\ airlinename_valid(rows[i])
        /\ ~duplicated(rows, "airlinekey", i)}
\* A complement that keeps the masked rows too.
Complement_keeps_all(rows, mask) == 1..Len(rows)
Complement(rows, mask) == (1..Len(rows)) \ mask

\* What a call on the staging store may do.
StoreOutcomes == {"data", "exception"}
Call(table_name, operation, recs, res) ==
    [table |-> table_name, op |-> operation, records |-> recs, result |-> res]
\* The loop over df_clean.iterrows() is at the row after those attempted.
NextRow == Cardinality({k \in DOMAIN staged : staged[k].op = "upsert"}) + 1

airlines_EXTRACT ==
    /\ pipeline = "airlines" /\ pc = "EXTRACT"
    /\ set_phase("EXTRACT")
    /\ \E sink \in SinkOutcomes, read \in ReadOutcomes :
        IF sink = "file_fails"
        THEN Raise("log_file") /\ UNCHANGED tables
        ELSE /\ log_event_supabase(sink)
             /\ IF read = "raises"
                THEN Return("read_csv") /\ UNCHANGED tables
                ELSE /\ \E file \in Tables(RawAirlineRows), header \in AirlineHeaders :
                        LET rows == WithIndex([i \in DOMAIN file |-> Restrict(file[i], header)])
                        IN input' = rows /\ df' = rows
                     /\ Goto("TRANSFORMATION")
                     /\ UNCHANGED <<df_clean, df_quarantine>>
    /\ UNCHANGED <<pipeline, loadvars, files, summary>>

airlines_TRANSFORMATION ==
    /\ pipeline = "airlines" /\ pc = "TRANSFORMATION"
    /\ set_phase("TRANSFORMATION")
    /\ \E sink \in SinkOutcomes :
        IF sink = "file_fails"
        THEN Raise("log_file") /\ UNCHANGED <<df, df_clean, df_quarantine>>
        ELSE /\ log_event_supabase(sink)
             /\ IF "airlinekey" \notin DOMAIN df[1]
                THEN Return("") /\ UNCHANGED <<df, df_clean, df_quarantine>>
                ELSE LET cleaned == [i \in DOMAIN df |->
                                        airlines_transform(add_missing_columns(df[i]))]
                         all_valid == airlines_all_valid(cleaned)
                     IN /\ df' = cleaned
                        /\ df_clean' = Masked(cleaned, all_valid, 1)
                        /\ df_quarantine' = Masked(cleaned, Complement(cleaned, all_valid), 1)
                        /\ Goto("LOAD")
    /\ UNCHANGED <<pipeline, input, loadvars, files, summary>>

airlines_LOAD ==
    /\ pipeline = "airlines" /\ pc = "LOAD"
    /\ set_phase("LOAD")
    /\ \E sink \in SinkOutcomes, table_exists \in BOOLEAN, cleared \in StoreOutcomes :
        IF sink = "file_fails"
        THEN Raise("log_file") /\ UNCHANGED staged
        ELSE /\ log_event_supabase(sink)
             /\ IF ~table_exists
                THEN Return("") /\ UNCHANGED staged
                ELSE /\ staged' = Append(staged, Call("staging_airlines", "delete", <<>>, "caught"))
                     /\ Goto(IF df_clean = <<>> THEN "VERIFY" ELSE "UPSERT")
    /\ UNCHANGED <<pipeline, tables, successful, failed, files, summary>>

airlines_record(row) ==
    [airlinekey |-> row.airlinekey,
     airlinename |-> row.airlinename,
     alliance |-> IF row.alliance \in valid_alliances THEN row.alliance ELSE "None"]

\* An iteration that counts the row as uploaded before the upsert is tried.
airlines_upsert_counts_attempts ==
    /\ pipeline = "airlines" /\ pc = "UPSERT"
    /\ \E result \in StoreOutcomes, sink \in SinkOutcomes :
        LET row == df_clean[NextRow]
        IN /\ staged' = Append(staged,
                    Call("staging_airlines", "upsert", <<airlines_record(row)>>, result))
           /\ successful' = successful + 1
           /\ failed' = IF result = "exception" THEN Append(failed, row.airlinekey) ELSE failed
           /\ IF result = "exception" /\ sink = "file_fails"
              THEN Raise("log_file")
              ELSE Goto(IF NextRow = Len(df_clean) THEN "VERIFY" ELSE "UPSERT")
    /\ UNCHANGED <<pipeline, phases, tables, files, summary>>

\* One iteration of the upload loop: the upsert is inside try/except; the
\* handler and every tenth success call log_event.
airlines_upsert ==
    /\ pipeline = "airlines" /\ pc = "UPSERT"
    /\ \E result \in StoreOutcomes, sink \in SinkOutcomes :
        LET row == df_clean[NextRow]
            logs == result = "exception" \/ (successful + 1) % 10 = 0
        IN /\ staged' = Append(staged,
                    Call("staging_airlines", "upsert", <<airlines_record(row)>>, result))
           /\ successful' = IF result = "data" THEN successful + 1 ELSE successful
           /\ failed' = IF result = "exception" THEN Append(failed, row.airlinekey) ELSE failed
           /\ IF logs /\ sink = "file_fails"
              THEN Raise("log_file")
              ELSE Goto(IF NextRow = Len(df_clean) THEN "VERIFY" ELSE "UPSERT")
    /\ UNCHANGED <<pipeline, phases, tables, files, summary>>

\* The phase the airlines pipeline calls VALIDATION: a count and a sample
\* read back from staging_airlines, inside try/except
airlines_VERIFY ==
    /\ pipeline = "airlines" /\ pc = "VERIFY"
    /\ set_phase("VALIDATION")
    /\ \E sink \in SinkOutcomes, verified \in StoreOutcomes :
        IF sink = "file_fails"
        THEN Raise("log_file")
        ELSE log_event_supabase(sink) /\ Goto("SUMMARY")
    /\ UNCHANGED <<pipeline, tables, loadvars, files, summary>>

airlines_SUMMARY ==
    /\ pipeline = "airlines" /\ pc = "SUMMARY"
    /\ set_phase("SUMMARY")
    /\ \E sink \in SinkOutcomes :
        IF sink = "file_fails"
        THEN Raise("log_file") /\ UNCHANGED <<summary, files>>
        ELSE /\ log_event_supabase(sink)
             /\ summary' = [emitted |-> TRUE, total |-> Len(df), uploaded |-> successful,
                            quarantine |-> Len(df_quarantine), failed |-> Len(failed)]
             /\ files' = files \cup {"cleaned_airlines.csv"}
             /\ Complete
    /\ UNCHANGED <<pipeline, tables, loadvars>>

run_airlines_pipeline ==
    \/ airlines_EXTRACT
    \/ airlines_TRANSFORMATION
    \/ airlines_LOAD
    \/ airlines_upsert
    \/ airlines_VERIFY
    \/ airlines_SUMMARY

(***************************************************************************)
(* FLIGHTS pipeline                                                        *)
(***************************************************************************)
FlightRow(k, o, d, t) ==
    [FlightKey |-> k, OriginAirportKey |-> o, DestinationAirportKey |-> d, AircraftType |-> t]
RawFlightRows ==
    { FlightRow("aa100", "jfk", "lax", "boeing  737"),
      FlightRow("AA100", "LAX", "JFK", "Airbus A320"),
      FlightRow("BA7", "LHR", "LHR", "A380"),
      FlightRow("BA12", "JFK", NaN, NaN),
      FlightRow(" b-a9", "JFX", "LAX", "x") }

\* What fetch_airportkeys / fetch_airlinekeys meet in the staging store.
RefOutcomes == {"no_table", "no_data", "raises", "data"}
None == <<>>
StagedAirportKeys == <<"JFK", "LAX", "LHR">>
StagedAirlineKeys == <<"AAL", "BA">>
fetch_airportkeys(ref) == IF ref = "data" THEN StagedAirportKeys ELSE None
fetch_airlinekeys(ref) == IF ref = "data" THEN StagedAirlineKeys ELSE None

\* rapidfuzz fuzz.WRatio on keys without whitespace, in thousandths of a
\* point: the Indel ratio, and for a length ratio of 1.5 or more the best
\* partial ratio scaled by 0.9 (0.6 beyond a length ratio of 8).
MaxOf(set) == CHOOSE m \in set : \A n \in set : n <= m
RECURSIVE LCS(_, _)
LCS(a, b) ==
    IF a = "" \/ b = "" THEN 0
    ELSE IF Ch(a, 1) = Ch(b, 1) THEN 1 + LCS(Rest(a), Rest(b))
    ELSE MaxOf({LCS(Rest(a), b), LCS(a, Rest(b))})
ratio(a, b) ==
    IF Len(a) + Len(b) = 0 THEN 100000 ELSE (200000 * LCS(a, b)) \div (Len(a) + Len(b))
partial_ratio(a, b) ==
    LET short == IF Len(a) <= Len(b) THEN a ELSE b
        long == IF Len(a) <= Len(b) THEN b ELSE a
        windows == {SubSeq(long, i, i + Len(short) - 1) : i \in 1..(Len(long) - Len(short) + 1)}
                   \cup {SubSeq(long, 1, n) : n \in 1..(Len(short) - 1)}
                   \cup {SubSeq(long, Len(long) - n + 1, Len(long)) : n \in 1..(Len(short) - 1)}
    IN MaxOf({ratio(short, w) : w \in windows})
WRatio(a, b) ==
    IF a = "" \/ b = "" THEN 0
    ELSE LET longer == MaxOf({Len(a), Len(b)})
             shorter == Len(a) + Len(b) - longer
         IN IF 2 * longer < 3 * shorter
            THEN ratio(a, b)
            ELSE MaxOf({ratio(a, b),
                        (partial_ratio(a, b) * (IF longer <= 8 * shorter THEN 90 ELSE 60))
                            \div 100})

\* process.extractOne: the first choice with the highest score
extractOne(value, valid_list) ==
    LET best == MaxOf({WRatio(value, valid_list[i]) : i \in DOMAIN valid_list})
        at == CHOOSE i \in DOMAIN valid_list :
                /\ WRatio(value, valid_list[i]) = best
                /\ \A j \in 1..(i - 1) : WRatio(value, valid_list[j]) < best
    IN <<valid_list[at], best>>

FuzzyThreshold == 85
\* A correction that accepts a best score of 80.
fuzzy_fix_cutoff_80(value, valid_list) ==
    IF valid_list = None \/ value = NaN THEN value
    ELSE LET best_match == extractOne(value, valid_list)
         IN IF best_match[2] >= 80000 THEN best_match[1] ELSE value
fuzzy_fix(value, valid_list) ==
    IF valid_list = None \/ value = NaN THEN value
    ELSE LET best_match == extractOne(value, valid_list)
         IN IF best_match[2] >= FuzzyThreshold * 1000 THEN best_match[1] ELSE value

RECURSIVE filter_chars(_, _)
filter_chars(s, set) ==
    IF s = "" THEN ""
    ELSE (IF Ch(s, 1) \in set THEN Ch(s, 1) ELSE "") \o filter_chars(Rest(s), set)
InList(v, list) == \E i \in DOMAIN list : list[i] = v

fix_flightkey_prefix(flightkey, airlinekeys) ==
    LET chars == filter_chars(flightkey, AlnumSet)
        prefix == upper(SubSeq(chars, 1, 2))
    IN IF flightkey = NaN \/ Len(chars) < 2 THEN flightkey
       ELSE IF airlinekeys # None /\ InList(prefix, airlinekeys) THEN flightkey
       ELSE IF airlinekeys # None /\ fuzzy_fix(prefix, airlinekeys) # prefix
            THEN fuzzy_fix(prefix, airlinekeys) \o SubSeq(flightkey, Len(prefix) + 1, Len(flightkey))
            ELSE flightkey

flights_normalize(r) ==
    [idx |-> r.idx,
     FlightKey |-> upper(strip(astype_str(r.FlightKey))),
     OriginAirportKey |-> upper(strip(astype_str(r.OriginAirportKey))),
     DestinationAirportKey |-> upper(strip(astype_str(r.DestinationAirportKey))),
     AircraftType |-> collapse_ws(title(strip(astype_str(r.AircraftType))))]

flights_resolve(r, valid_airports, valid_airlines) ==
    [idx |-> r.idx,
     FlightKey |-> IF valid_airlines # None
                   THEN fix_flightkey_prefix(r.FlightKey, valid_airlines) ELSE r.FlightKey,
     OriginAirportKey |-> IF valid_airports # None
                          THEN fuzzy_fix(r.OriginAirportKey, valid_airports)
                          ELSE r.OriginAirportKey,
     DestinationAirportKey |-> IF valid_airports # None
                               THEN fuzzy_fix(r.DestinationAirportKey, valid_airports)
                               ELSE r.DestinationAirportKey,
     AircraftType |-> r.AircraftType]

flight_valid(r) ==
    /\ Len(r.FlightKey) >= 3
    /\ AllIn(SubSeq(r.FlightKey, 1, 2), AlnumSet)
    /\ AllIn(SubSeq(r.FlightKey, 3, Len(r.FlightKey)), DigitSet)
origin_valid(r) == Len(r.OriginAirportKey) = 3 /\ AllIn(r.OriginAirportKey, AlphaSet)
dest_valid(r) == Len(r.DestinationAirportKey) = 3 /\ AllIn(r.DestinationAirportKey, AlphaSet)
origin_dest_valid(r) == r.OriginAirportKey # r.DestinationAirportKey

flights_all_valid(rows) ==
    {i \in 1..Len(rows) :
        /\ flight_valid(rows[i]) /\ origin_valid(rows[i]) /\ dest_valid(rows[i])
        /\ origin_dest_valid(rows[i])
        /\ ~duplicated(rows, "FlightKey", i)}

\* read_csv is outside any try in this pipeline
flights_EXTRACT ==
    /\ pipeline = "flights" /\ pc = "EXTRACT"
    /\ set_phase("EXTRACT")
    /\ \E sink \in SinkOutcomes, read \in ReadOutcomes :
        IF sink = "file_fails" \/ read = "raises"
        THEN Raise(IF sink = "file_fails" THEN "log_file" ELSE "read_csv") /\ UNCHANGED tables
        ELSE /\ log_event_supabase(sink)
             /\ \E file \in Tables(RawFlightRows) :
                    input' = WithIndex(file) /\ df' = WithIndex(file)
             /\ Goto("TRANSFORMATION")
             /\ UNCHANGED <<df_clean, df_quarantine>>
    /\ UNCHANGED <<pipeline, loadvars, files, summary>>

\* The select of the reference keys is outside any try: only a missing
\* table (table_exists) and an empty result give None
flights_TRANSFORMATION ==
    /\ pipeline = "flights" /\ pc = "TRANSFORMATION"
    /\ set_phase("TRANSFORMATION")
    /\ \E sink \in SinkOutcomes, airports_ref \in RefOutcomes, airlines_ref \in RefOutcomes :
        IF sink = "file_fails"
        THEN Raise("log_file") /\ UNCHANGED df
        ELSE LET normalized == [i \in DOMAIN df |-> flights_normalize(df[i])] IN
             /\ log_event_supabase(sink)
             /\ IF airports_ref = "raises" \/ airlines_ref = "raises"
                THEN Raise("select") /\ df' = normalized
                ELSE /\ df' = [i \in DOMAIN df |->
                                flights_resolve(normalized[i], fetch_airportkeys(airports_ref),
                                                fetch_airlinekeys(airlines_ref))]
                     /\ Goto("VALIDATION")
    /\ UNCHANGED <<pipeline, input, df_clean, df_quarantine, loadvars, files, summary>>

flights_VALIDATION ==
    /\ pipeline = "flights" /\ pc = "VALIDATION"
    /\ set_phase("VALIDATION")
    /\ \E sink \in SinkOutcomes :
        IF sink = "file_fails"
        THEN Raise("log_file") /\ UNCHANGED <<df_clean, df_quarantine>>
        ELSE LET all_valid == flights_all_valid(df) IN
             /\ log_event_supabase(sink)
             /\ df_clean' = Masked(df, all_valid, 1)
             /\ df_quarantine' = Masked(df, Complement(df, all_valid), 1)
             /\ Goto("TRANSFORM-CLEANED")
    /\ UNCHANGED <<pipeline, input, df, loadvars, files, summary>>

flights_TRANSFORM_CLEANED ==
    /\ pipeline = "flights" /\ pc = "TRANSFORM-CLEANED"
    /\ set_phase("TRANSFORM-CLEANED")
    /\ \E sink \in SinkOutcomes :
        IF sink = "file_fails" THEN Raise("log_file") ELSE log_event_supabase(sink) /\ Goto("LOAD")
    /\ UNCHANGED <<pipeline, tables, loadvars, files, summary>>

flights_LOAD ==
    /\ pipeline = "flights" /\ pc = "LOAD"
    /\ set_phase("LOAD")
    /\ \E sink \in SinkOutcomes :
        IF sink = "file_fails"
        THEN Raise("log_file")
        ELSE log_event_supabase(sink)
             /\ Goto(IF df_clean = <<>> THEN "SUMMARY" ELSE "UPSERT")
    /\ UNCHANGED <<pipeline, tables, loadvars, files, summary>>

flights_record(row) ==
    [flightkey |-> row.FlightKey,
     originairportkey |-> row.OriginAirportKey,
     destinationairportkey |-> row.DestinationAirportKey,
     aircrafttype |-> row.AircraftType]

\* One iteration of the upload loop: the upsert is outside any try
flights_upsert ==
    /\ pipeline = "flights" /\ pc = "UPSERT"
    /\ \E result \in StoreOutcomes :
        /\ staged' = Append(staged,
                Call("staging_flights", "upsert", <<flights_record(df_clean[NextRow])>>, result))
        /\ IF result = "exception"
           THEN Raise("upsert")
           ELSE Goto(IF NextRow = Len(df_clean) THEN "SUMMARY" ELSE "UPSERT")
    /\ UNCHANGED <<pipeline, phases, tables, successful, failed, files, summary>>

flights_SUMMARY ==
    /\ pipeline = "flights" /\ pc = "SUMMARY"
    /\ set_phase("SUMMARY")
    /\ \E sink \in SinkOutcomes :
        IF sink = "file_fails"
        THEN Raise("log_file") /\ UNCHANGED summary
        ELSE /\ log_event_supabase(sink)
             /\ summary' = [emitted |-> TRUE, total |-> Len(df), clean |-> Len(df_clean),
                            quarantine |-> Len(df_quarantine)]
             /\ Complete
    /\ UNCHANGED <<pipeline, tables, loadvars, files>>

run_flights_pipeline ==
    \/ flights_EXTRACT
    \/ flights_TRANSFORMATION
    \/ flights_VALIDATION
    \/ flights_TRANSFORM_CLEANED
    \/ flights_LOAD
    \/ flights_upsert
    \/ flights_SUMMARY

(***************************************************************************)
(* TRAVEL-AGENCY TRANSACTIONS pipeline                                     *)
(***************************************************************************)
TravelRow(id, date, pid, fid, price, tax, fees, total) ==
    [transactionid |-> id, transactiondate |-> date, passengerid |-> pid, flightid |-> fid,
     ticketprice |-> price, taxes |-> tax, baggagefees |-> fees, totalamount |-> total]
RawTravelRows ==
    { TravelRow("40001", "2024-jan-05", "P01234", "AA100", "$100.00", "10.00", "5.00", "115.00"),
      TravelRow("BAD", "2024-01-06", "P01235", "BA7", "100.00", "10.00", "5.00", "115.00"),
      TravelRow("40003", "2024-01-07", "P01236", "B7", "100.00", "10.00", "5.00", "115.01"),
      TravelRow(NaN, "garbage", NaN, "aa1", "abc", NaN, "1,000.50", "$1,000.50"),
      TravelRow("40002", "2024-feb-29", "P81234", "A1", "20.004", "0", "0.00", "20.00") }
travel_columns == DOMAIN TravelRow("", "", "", "", "", "", "", "")

\* np.nan in a numeric column
np_nan == -1

isdigit(s) == s # "" /\ AllIn(s, DigitSet)
RECURSIVE int(_)
int(s) ==
    IF s = "" THEN 0
    ELSE int(SubSeq(s, 1, Len(s) - 1)) * 10
         + (CHOOSE i \in 1..Len(Digits) : Ch(Digits, i) = Ch(s, Len(s))) - 1
RECURSIVE str(_)
str(n) == IF n < 10 THEN Ch(Digits, n + 1) ELSE str(n \div 10) \o Ch(Digits, (n % 10) + 1)

\* lines 1364-1375; the cells are digit strings, other text, or missing
is_numeric(x) == isdigit(astype_str(x))
to_numeric_id(x) == IF is_numeric(x) THEN int(x) ELSE np_nan
RECURSIVE ffill(_, _)
ffill(column, i) ==
    IF i = 0 THEN np_nan
    ELSE IF column[i] # np_nan THEN column[i] ELSE ffill(column, i - 1)
prev_id(ids, i) == ffill([k \in DOMAIN ids |-> to_numeric_id(ids[k])], i)
\* .astype(int) of a missing prev_id raises
backfill_raises(ids) == \E i \in DOMAIN ids : ~is_numeric(ids[i]) /\ prev_id(ids, i) = np_nan
transactionid_fixed(ids, i) ==
    IF is_numeric(ids[i]) THEN to_numeric_id(ids[i]) ELSE prev_id(ids, i) + 1
backfill(ids) == [i \in DOMAIN ids |-> str(transactionid_fixed(ids, i))]

\* Currency cells: "$" and "," removed, parsed as an unsigned decimal of at
\* most three places (mills), rounded to cents.  The ceiling of
\* clip(upper=99999999.99) is above every amount read here.
IndexOf(s, c) == IF \E i \in 1..Len(s) : Ch(s, i) = c
                 THEN CHOOSE i \in 1..Len(s) : Ch(s, i) = c /\ \A j \in 1..(i - 1) : Ch(s, j) # c
                 ELSE 0
RECURSIVE remove_chars(_, _)
remove_chars(s, set) ==
    IF s = "" THEN ""
    ELSE (IF Ch(s, 1) \in set THEN "" ELSE Ch(s, 1)) \o remove_chars(Rest(s), set)
strip_currency(v) == IF v = NaN THEN NaN ELSE remove_chars(v, {"$", ","})
to_numeric(v) ==
    IF v = NaN THEN np_nan
    ELSE LET dot == IndexOf(v, ".")
             whole == IF dot = 0 THEN v ELSE SubSeq(v, 1, dot - 1)
             frac == IF dot = 0 THEN "" ELSE SubSeq(v, dot + 1, Len(v))
             padded == SubSeq(frac \o "000", 1, 3)
         IN IF isdigit(whole) /\ AllIn(frac, DigitSet) /\ Len(frac) <= 3
            THEN int(whole) * 1000 + int(padded)
            ELSE np_nan
round2(mills) == IF mills = np_nan THEN np_nan ELSE (mills + 5) \div 10
amount(v) == round2(to_numeric(strip_currency(v)))
row_sum(r) ==
    LET skipna(v) == IF v = np_nan THEN 0 ELSE v
    IN skipna(r.ticketprice) + skipna(r.taxes) + skipna(r.baggagefees)
\* A comparison that tolerates one cent.
totals_match_tolerance(r) ==
    r.totalamount # np_nan /\ row_sum(r) - r.totalamount \in -1..1
totals_match(r) == r.totalamount # np_nan /\ row_sum(r) = r.totalamount

\* to_standard_date: "%Y/%b/%d" first, then the general parser, which is
\* modelled for numeric year/month/day text; anything else is missing
MonthAbbr == <<"Jan", "Feb", "Mar", "Apr", "May", "Jun",
               "Jul", "Aug", "Sep", "Oct", "Nov", "Dec">>
DaysIn(y, m) ==
    IF m = 2 THEN (IF (y % 4 = 0 /\ y % 100 # 0) \/ y % 400 = 0 THEN 29 ELSE 28)
    ELSE IF m \in {4, 6, 9, 11} THEN 30 ELSE 31
to_standard_date(x) ==
    LET val == title(replace(strip(astype_str(x)), "-", "/"))
        s1 == IndexOf(val, "/")
        tail == SubSeq(val, s1 + 1, Len(val))
        s2 == IndexOf(tail, "/")
        year == SubSeq(val, 1, s1 - 1)
        month == SubSeq(tail, 1, s2 - 1)
        day == SubSeq(tail, s2 + 1, Len(tail))
        m == IF InList(month, MonthAbbr)
             THEN CHOOSE k \in DOMAIN MonthAbbr : MonthAbbr[k] = month
             ELSE IF isdigit(month) /\ Len(month) <= 2 THEN int(month) ELSE 0
    IN IF /\ s1 > 0 /\ s2 > 0
          /\ isdigit(year) /\ Len(year) = 4
          /\ m \in 1..12
          /\ isdigit(day) /\ Len(day) <= 2
          /\ int(day) \in 1..DaysIn(int(year), m)
       THEN int(year) * 10000 + m * 100 + int(day)
       ELSE np_nan

travel_transform(rows, i) ==
    [idx |-> rows[i].idx,
     transactionid |-> backfill([k \in DOMAIN rows |-> rows[k].transactionid])[i],
     transactiondate |-> to_standard_date(rows[i].transactiondate),
     passengerid |-> rows[i].passengerid,
     flightid |-> rows[i].flightid,
     ticketprice |-> amount(rows[i].ticketprice),
     taxes |-> amount(rows[i].taxes),
     baggagefees |-> amount(rows[i].baggagefees),
     totalamount |-> amount(rows[i].totalamount)]

transactionid_pattern(v) ==
    Len(v) = 5 /\ Ch(v, 1) = "4" /\ AllIn(Rest(v), DigitSet)
passengerid_pattern(v) ==
    /\ v # NaN /\ Len(v) = 6 /\ Ch(v, 1) = "P"
    /\ Ch(v, 2) \in DigitSet \ {"9"}
    /\ AllIn(SubSeq(v, 3, 6), DigitSet)
flightid_pattern(v) ==
    /\ v # NaN
    /\ \E n \in 1..2 :
        /\ Len(v) \in (n + 1)..(n + 5)
        /\ AllIn(SubSeq(v, 1, n), UpperSet)
        /\ AllIn(SubSeq(v, n + 1, Len(v)), DigitSet)
exact_dupes_mask(rows, i) ==
    \E j \in 1..(i - 1) : Restrict(rows[j], travel_columns) = Restrict(rows[i], travel_columns)
invalid_mask(rows) ==
    {i \in 1..Len(rows) :
        \/ rows[i].passengerid = NaN \/ rows[i].flightid = NaN
        \/ ~transactionid_pattern(rows[i].transactionid)
        \/ ~passengerid_pattern(rows[i].passengerid)
        \/ ~flightid_pattern(rows[i].flightid)
        \/ ~totals_match(rows[i])
        \/ rows[i].transactiondate = np_nan
        \/ exact_dupes_mask(rows, i)
        \/ duplicated(rows, "transactionid", i)}

\* read_csv is outside any try in this pipeline
travel_EXTRACT ==
    /\ pipeline = "facttravel" /\ pc = "EXTRACT"
    /\ set_phase("EXTRACT")
    /\ \E sink \in SinkOutcomes, read \in ReadOutcomes :
        IF sink = "file_fails" \/ read = "raises"
        THEN Raise(IF sink = "file_fails" THEN "log_file" ELSE "read_csv") /\ UNCHANGED tables
        ELSE /\ log_event_supabase(sink)
             /\ \E file \in Tables(RawTravelRows) :
                    input' = WithIndex(file) /\ df' = WithIndex(file)
             /\ Goto("TRANSFORMATION")
             /\ UNCHANGED <<df_clean, df_quarantine>>
    /\ UNCHANGED <<pipeline, loadvars, files, summary>>

travel_TRANSFORMATION ==
    /\ pipeline = "facttravel" /\ pc = "TRANSFORMATION"
    /\ set_phase("TRANSFORMATION")
    /\ \E sink \in SinkOutcomes :
        IF sink = "file_fails" \/ backfill_raises([k \in DOMAIN df |-> df[k].transactionid])
        THEN Raise(IF sink = "file_fails" THEN "log_file" ELSE "astype_int") /\ UNCHANGED df
        ELSE /\ log_event_supabase(sink)
             /\ df' = [i \in DOMAIN df |-> travel_transform(df, i)]
             /\ Goto("VALIDATION")
    /\ UNCHANGED <<pipeline, input, df_clean, df_quarantine, loadvars, files, summary>>

travel_VALIDATION ==
    /\ pipeline = "facttravel" /\ pc = "VALIDATION"
    /\ set_phase("VALIDATION")
    /\ \E sink \in SinkOutcomes :
        IF sink = "file_fails"
        THEN Raise("log_file") /\ UNCHANGED <<df_clean, df_quarantine>>
        ELSE /\ log_event_supabase(sink)
             /\ df_quarantine' = Masked(df, invalid_mask(df), 1)
             /\ df_clean' = Masked(df, Complement(df, invalid_mask(df)), 1)
             /\ Goto("TRANSFORM-CLEANED")
    /\ UNCHANGED <<pipeline, input, df, loadvars, files, summary>>

travel_TRANSFORM_CLEANED ==
    /\ pipeline = "facttravel" /\ pc = "TRANSFORM-CLEANED"
    /\ set_phase("TRANSFORM-CLEANED")
    /\ \E sink \in SinkOutcomes :
        IF sink = "file_fails" THEN Raise("log_file") ELSE log_event_supabase(sink) /\ Goto("LOAD")
    /\ UNCHANGED <<pipeline, tables, loadvars, files, summary>>

travel_LOAD ==
    /\ pipeline = "facttravel" /\ pc = "LOAD"
    /\ set_phase("LOAD")
    /\ \E sink \in SinkOutcomes :
        IF sink = "file_fails"
        THEN Raise("log_file") /\ UNCHANGED files
        ELSE /\ log_event_supabase(sink)
             /\ files' = files \cup {"cleaned_travel_agency_sales.csv",
                                     "quarantined_travel_agency_sales.csv"}
             /\ Goto(IF df_clean = <<>> THEN "SUMMARY" ELSE "UPSERT")
    /\ UNCHANGED <<pipeline, tables, loadvars, summary>>

\* One iteration of the upload loop: the upsert is inside try/except, the
\* handler calls log_event; `successful` holds loaded_count
travel_upsert ==
    /\ pipeline = "facttravel" /\ pc = "UPSERT"
    /\ \E result \in StoreOutcomes, sink \in SinkOutcomes :
        /\ staged' = Append(staged,
                Call("staging_facttravelagencysales_source2_agency", "upsert",
                     <<Restrict(df_clean[NextRow], travel_columns)>>, result))
        /\ IF result = "exception"
           THEN /\ UNCHANGED successful
                /\ IF sink = "file_fails"
                   THEN Raise("log_file")
                   ELSE log_event_supabase(sink)
                        /\ Goto(IF NextRow = Len(df_clean) THEN "SUMMARY" ELSE "UPSERT")
           ELSE /\ successful' = successful + 1
                /\ Goto(IF NextRow = Len(df_clean) THEN "SUMMARY" ELSE "UPSERT")
    /\ UNCHANGED <<pipeline, phases, tables, failed, files, summary>>

travel_SUMMARY ==
    /\ pipeline = "facttravel" /\ pc = "SUMMARY"
    /\ set_phase("SUMMARY")
    /\ \E sink \in SinkOutcomes :
        IF sink = "file_fails"
        THEN Raise("log_file") /\ UNCHANGED summary
        ELSE /\ log_event_supabase(sink)
             /\ summary' = [emitted |-> TRUE, total |-> Len(df), clean |-> Len(df_clean),
                            quarantine |-> Len(df_quarantine), loaded |-> successful]
             /\ Complete
    /\ UNCHANGED <<pipeline, tables, loadvars, files>>

run_facttravelagency_pipeline ==
    \/ travel_EXTRACT
    \/ travel_TRANSFORMATION
    \/ travel_VALIDATION
    \/ travel_TRANSFORM_CLEANED
    \/ travel_LOAD
    \/ travel_upsert
    \/ travel_SUMMARY

(***************************************************************************)
(* PASSENGERS: clean_passengers_data and run_passengers_pipeline           *)
(***************************************************************************)
PassengerRow(k, n, e, l) == [PassengerKey |-> k, FullName |-> n, Email |-> e, LoyaltyStatus |-> l]
RawPassengerRows ==
    { PassengerRow("P0042", "  john   smith ", "John.Smith42@Example.com ", " gold "),
      PassengerRow("P7", "John Smith", "john.smith@example.com", "Gold!"),
      PassengerRow("P1003", "Madonna", "madonna@example.com", "Silver"),
      PassengerRow(NaN, "Ann Lee", NaN, "VIP"),
      PassengerRow("P1005", "bob ray", "bob_ray@example.com", "bronze"),
      PassengerRow("P9", "Ann Lee", "ann.lee9@example.com", "Platinum") }

remove_key_from_email(email, raw_key) ==
    LET key_digits == filter_chars(astype_str(raw_key), DigitSet)
    IN IF key_digits # ""
       THEN replace(replace(email, key_digits, ""), str(int(key_digits)), "")
       ELSE email

passengers_normalize(r) ==
    [idx |-> r.idx,
     PassengerKey |-> strip(astype_str(r.PassengerKey)),
     FullName |-> title(collapse_ws(strip(astype_str(r.FullName)))),
     Email |-> remove_key_from_email(strip(lower(astype_str(r.Email))), r.PassengerKey),
     LoyaltyStatus |-> capitalize(filter_chars(strip(astype_str(r.LoyaltyStatus)), AlphaSet))]

valid_statuses == {"Bronze", "Silver", "Gold", "Platinum"}

\* ^[A-Za-z]+(?:\s+[A-Za-z]+)+$
RECURSIVE words_from(_)
words_from(s) ==
    \/ s # "" /\ AllIn(s, AlphaSet)
    \/ \E i \in 2..(Len(s) - 1) :
        /\ AllIn(SubSeq(s, 1, i - 1), AlphaSet)
        /\ Ch(s, i) \in SpaceSet
        /\ words_from(lstrip(SubSeq(s, i + 1, Len(s))))
FullName_valid(s) == ~AllIn(s, AlphaSet) /\ words_from(s)

\* ^[a-z0-9]+(?:[._][a-z0-9]+)*@example\.com$
RECURSIVE local_part(_)
local_part(s) ==
    \/ s # "" /\ AllIn(s, LowerSet \cup DigitSet)
    \/ \E i \in 2..(Len(s) - 1) :
        /\ AllIn(SubSeq(s, 1, i - 1), LowerSet \cup DigitSet)
        /\ Ch(s, i) \in {".", "_"}
        /\ local_part(SubSeq(s, i + 1, Len(s)))
Email_valid(s) ==
    LET domain == "@example.com"
    IN /\ Len(s) > Len(domain)
       /\ SubSeq(s, Len(s) - Len(domain) + 1, Len(s)) = domain
       /\ local_part(SubSeq(s, 1, Len(s) - Len(domain)))

dup_cols == {"FullName", "Email", "LoyaltyStatus"}
\* DataFrame.duplicated(subset=dup_cols, keep='last')
duplicates_idx_keep_last(rows) ==
    {i \in 1..Len(rows) :
        \E j \in (i + 1)..Len(rows) :
            Restrict(rows[j], dup_cols) = Restrict(rows[i], dup_cols)}
duplicates_idx(rows) ==
    {i \in 1..Len(rows) :
        \E j \in 1..(i - 1) : Restrict(rows[j], dup_cols) = Restrict(rows[i], dup_cols)}
invalid_logic_idx(rows) ==
    {i \in 1..Len(rows) :
        \/ ~FullName_valid(rows[i].FullName)
        \/ ~Email_valid(rows[i].Email)
        \/ rows[i].LoyaltyStatus \notin valid_statuses}
invalid_idx_all(rows) == duplicates_idx(rows) \cup invalid_logic_idx(rows)

\* A cleaner that takes the quarantined rows from the normalized frame.
clean_passengers_data_quarantines_cleaned(original_df) ==
    LET cleaned == [i \in DOMAIN original_df |-> passengers_normalize(original_df[i])]
        invalid == invalid_idx_all(cleaned)
        kept == Masked(cleaned, Complement(cleaned, invalid), 1)
    IN [df |-> cleaned,
        clean |-> [n \in DOMAIN kept |->
                     [idx |-> kept[n].idx,
                      passengerkey |-> "P" \o str(1000 + n),
                      fullname |-> kept[n].FullName,
                      email |-> kept[n].Email,
                      loyaltystatus |-> kept[n].LoyaltyStatus]],
        quarantined |-> Masked(cleaned, invalid, 1)]
\* A cleaner that leaves the clean rows their stripped original key.
clean_passengers_data_keeps_key(original_df) ==
    LET cleaned == [i \in DOMAIN original_df |-> passengers_normalize(original_df[i])]
        invalid == invalid_idx_all(cleaned)
        kept == Masked(cleaned, Complement(cleaned, invalid), 1)
    IN [df |-> cleaned,
        clean |-> [n \in DOMAIN kept |->
                     [idx |-> kept[n].idx,
                      passengerkey |-> kept[n].PassengerKey,
                      fullname |-> kept[n].FullName,
                      email |-> kept[n].Email,
                      loyaltystatus |-> kept[n].LoyaltyStatus]],
        quarantined |-> Masked(original_df, invalid, 1)]
clean_passengers_data(original_df) ==
    LET cleaned == [i \in DOMAIN original_df |-> passengers_normalize(original_df[i])]
        invalid == invalid_idx_all(cleaned)
        kept == Masked(cleaned, Complement(cleaned, invalid), 1)
    IN [df |-> cleaned,
        clean |-> [n \in DOMAIN kept |->
                     [idx |-> kept[n].idx,
                      passengerkey |-> "P" \o str(1000 + n),
                      fullname |-> kept[n].FullName,
                      email |-> kept[n].Email,
                      loyaltystatus |-> kept[n].LoyaltyStatus]],
        quarantined |-> Masked(original_df, invalid, 1)]

\* run_passengers_pipeline: no phase, no log, no upload; read_csv is
\* outside any try.  The frame passed to clean_passengers_data is changed
\* in place.
passengers_read ==
    /\ pipeline = "passengers" /\ pc = "EXTRACT"
    /\ \E read \in ReadOutcomes :
        IF read = "raises"
        THEN Raise("read_csv") /\ UNCHANGED tables
        ELSE /\ \E file \in Tables(RawPassengerRows) :
                    input' = WithIndex(file) /\ df' = WithIndex(file)
             /\ Goto("CLEAN")
             /\ UNCHANGED <<df_clean, df_quarantine>>
    /\ UNCHANGED <<pipeline, phases, loadvars, files, summary>>

passengers_clean ==
    /\ pipeline = "passengers" /\ pc = "CLEAN"
    /\ LET result == clean_passengers_data(df) IN
        /\ df' = result.df
        /\ df_clean' = result.clean
        /\ df_quarantine' = result.quarantined
    /\ files' = files \cup {"cleaned_passengers.csv", "quarantined_passengers.csv"}
    /\ Complete
    /\ UNCHANGED <<pipeline, phases, input, loadvars, summary>>

run_passengers_pipeline ==
    \/ passengers_read
    \/ passengers_clean

(***************************************************************************)
(* staging_script/cleaners: process_pipeline, the passenger pipeline run   *)
(* by `python -m staging_script.cleaners <input> [<output>]`.  Its logger  *)
(* log_to_supabase catches every exception of the insert.                  *)
(***************************************************************************)
cleaners_main ==
    /\ pc = "main"
    /\ pipeline' = "process_pipeline"
    /\ Goto("EXTRACT")
    /\ UNCHANGED <<phases, tables, loadvars, files, summary>>

\* STEP 1 and STEP 2: read_csv, then clean_passengers_data on the frame
\* read; an exception is logged as FATAL and raised again
process_extract ==
    /\ pipeline = "process_pipeline" /\ pc = "EXTRACT"
    /\ \E read \in ReadOutcomes :
        IF read = "raises"
        THEN Raise("read_csv") /\ UNCHANGED tables
        ELSE \E file \in Tables(RawPassengerRows) :
                LET result == clean_passengers_data(WithIndex(file)) IN
                /\ input' = WithIndex(file)
                /\ df' = result.df
                /\ df_clean' = result.clean
                /\ df_quarantine' = result.quarantined
                /\ Goto("LOAD")
    /\ UNCHANGED <<pipeline, phases, loadvars, files, summary>>

\* A load that triggers the warehouse procedure whatever the upsert did.
process_load_always_triggers ==
    /\ pipeline = "process_pipeline" /\ pc = "LOAD"
    /\ \E upserted \in StoreOutcomes, rpc \in StoreOutcomes :
        /\ staged' = staged \o
                <<Call("staging_passengers", "upsert",
                       [j \in DOMAIN df_clean |->
                           Restrict(df_clean[j], DOMAIN df_clean[j] \ {"idx"})], upserted),
                  Call("start_passenger_etl_pipeline", "rpc", <<>>, rpc)>>
        /\ IF rpc = "exception" THEN Raise("rpc") ELSE Complete
    /\ UNCHANGED <<pipeline, phases, tables, successful, failed, files, summary>>

\* STEP 3 to STEP 5: one upsert of all clean records, the optional export
\* of the cleaned CSV (inside its own try), then run_warehouse_pipeline,
\* whose rpc exception is raised again
process_load ==
    /\ pipeline = "process_pipeline" /\ pc = "LOAD"
    /\ \E upserted \in StoreOutcomes, rpc \in StoreOutcomes,
          export \in {"no_path", "written", "fails"} :
        LET records == [j \in DOMAIN df_clean |->
                           Restrict(df_clean[j], DOMAIN df_clean[j] \ {"idx"})]
            upsert_call == Call("staging_passengers", "upsert", records, upserted)
            rpc_call == Call("start_passenger_etl_pipeline", "rpc", <<>>, rpc)
        IN IF df_clean = <<>>
           THEN Complete /\ UNCHANGED <<staged, files>>
           ELSE IF upserted = "exception"
           THEN /\ staged' = Append(staged, upsert_call)
                /\ Raise("upsert") /\ UNCHANGED files
           ELSE /\ staged' = staged \o <<upsert_call, rpc_call>>
                /\ files' = IF export = "written"
                            THEN files \cup {"output_cleaned_path"} ELSE files
                /\ IF rpc = "exception" THEN Raise("rpc") ELSE Complete
    /\ UNCHANGED <<pipeline, phases, tables, successful, failed, summary>>

process_pipeline ==
    \/ process_extract
    \/ process_load

(***************************************************************************)
(* CLI dispatch                                                            *)
(***************************************************************************)
Argv1 == {"airports", "airlines", "flights", "facttravel", "passengers", "hotels"}
KnownPipelines == {"airports", "airlines", "flights", "facttravel", "passengers"}

main ==
    /\ pc = "main"
    /\ \E arg \in Argv1 :
        /\ pipeline' = lower(arg)
        /\ IF lower(arg) \in KnownPipelines
           THEN Goto("EXTRACT")
           ELSE Complete
    /\ UNCHANGED <<phases, tables, loadvars, files, summary>>

Init ==
    /\ pipeline = ""
    /\ pc = "main"
    /\ phases = <<>>
    /\ input = <<>>
    /\ df = <<>>
    /\ df_clean = <<>>
    /\ df_quarantine = <<>>
    /\ staged = <<>>
    /\ successful = 0
    /\ failed = <<>>
    /\ files = {}
    /\ summary = NoSummary
    /\ outcome = "running"
    /\ failure = ""
    /\ exit_code = NoExit

Next ==
    \/ main
    \/ run_airports_pipeline
    \/ run_airlines_pipeline
    \/ run_flights_pipeline
    \/ run_facttravelagency_pipeline
    \/ run_passengers_pipeline
    \/ cleaners_main
    \/ process_pipeline

Spec == Init /\ [][Next]_vars

(***************************************************************************)
(* The helper functions of the cleaners called on their own: `pipeline`    *)
(* names the function, input[1] holds its arguments and df collects what   *)
(* it returns.                                                             *)
(***************************************************************************)
CallInit ==
    /\ pc = "call"
    /\ \/ \E value \in {"JFK", "JFX", "LAX", "NAN", "AA", "BA", "B",
                         "KJFKNYC", "KJFXNYC", "KJFXNY"},
             valid_list \in {None, StagedAirportKeys, StagedAirlineKeys,
                             <<"LAX", "JFK", "JFK">>, <<"KJFKNYC", "EGLLLON">>, <<"KJFKNY">>} :
        /\ pipeline = "fuzzy_fix"
        /\ input = <<[value |-> value, valid_list |-> valid_list]>>
       \/ \E flightkey \in {"AA100", "BA7", "AAL5", "B-A9", "A-A100", "AX12", "X1", "7", NaN},
             airlinekeys \in {None, StagedAirlineKeys, <<"BA">>} :
        /\ pipeline = "fix_flightkey_prefix"
        /\ input = <<[flightkey |-> flightkey, airlinekeys |-> airlinekeys]>>
       \/ \E alliance \in {r.alliance : r \in RawAirlineRows}
                           \cup {"", "none", "None", "Star Alliance", "staralliance"} :
        /\ pipeline = "normalize_alliance"
        /\ input = <<[alliance |-> alliance]>>
       \/ \E row \in RawAirportRows
                      \cup {AirportRow("ord", "o'hare  int'S", "the city Of  the  at", "u.s.a."),
                            AirportRow("LGW", "king'S cross and of", " In the in", "U.K."),
                            AirportRow("pos", "piarco", "port of spain", "trinidad And tobago")} :
        /\ pipeline = "airports_transform"
        /\ input = WithIndex(<<row>>)
    /\ phases = <<>> /\ df = <<>> /\ df_clean = <<>> /\ df_quarantine = <<>>
    /\ staged = <<>> /\ successful = 0 /\ failed = <<>> /\ files = {}
    /\ summary = NoSummary /\ outcome = "running" /\ failure = "" /\ exit_code = NoExit

call_fuzzy_fix ==
    /\ pipeline = "fuzzy_fix" /\ pc = "call"
    /\ df' = <<fuzzy_fix(input[1].value, input[1].valid_list)>>
    /\ pc' = "return"
    /\ UNCHANGED <<pipeline, phases, input, df_clean, df_quarantine, loadvars, files,
                   summary, outcome, failure, exit_code>>

call_fix_flightkey_prefix ==
    /\ pipeline = "fix_flightkey_prefix" /\ pc = "call"
    /\ df' = <<fix_flightkey_prefix(input[1].flightkey, input[1].airlinekeys)>>
    /\ pc' = "return"
    /\ UNCHANGED <<pipeline, phases, input, df_clean, df_quarantine, loadvars, files,
                   summary, outcome, failure, exit_code>>

\* A normalizer applied to a raw value, and again to what it returned
call_normalize ==
    /\ pipeline \in {"normalize_alliance", "airports_transform"} /\ pc = "call"
    /\ df' = IF pipeline = "normalize_alliance"
             THEN <<normalize_alliance(input[1].alliance),
                    normalize_alliance(normalize_alliance(input[1].alliance))>>
             ELSE <<airports_transform(input[1]),
                    airports_transform(airports_transform(input[1]))>>
    /\ pc' = "return"
    /\ UNCHANGED <<pipeline, phases, input, df_clean, df_quarantine, loadvars, files,
                   summary, outcome, failure, exit_code>>

CallSpec ==
    CallInit /\ [][call_fuzzy_fix \/ call_fix_flightkey_prefix \/ call_normalize]_vars

(***************************************************************************)
(* Properties                                                              *)
(***************************************************************************)

\* C1: for every cleaner and every input table T with its required columns,
\* each input row ends up in exactly one of the clean set and the quarantine
\* set: when a run that read T has ended, and neither the log file nor the
\* store failed, |clean| + |quarantine| = |T| and every row identity occurs
\* once in the two sets together.
C1_Partition ==
    LET count(rows, id) == Cardinality({j \in DOMAIN rows : rows[j].idx = id})
        ended == /\ pc = "exit" /\ input # <<>>
                 /\ failure \notin {"log_file", "select", "upsert"}
                 /\ pipeline = "airlines" => "airlinekey" \in DOMAIN input[1]
    IN ended =>
        /\ Len(df_clean) + Len(df_quarantine) = Len(input)
        /\ \A i \in DOMAIN input :
            count(df_clean, input[i].idx) + count(df_quarantine, input[i].idx) = 1

\* C2: in the airports pipeline, once the split is made, a row with a missing
\* key, name, city or country cell is in the quarantine set and not in the
\* clean set, and a row with all four cells present and a key of three
\* uppercase letters is in the clean set.
C2_MissingQuarantined ==
    (pipeline = "airports" /\ pc \in {"TRANSFORM-CLEANED", "LOAD", "SUMMARY"}) =>
        \A i \in DOMAIN input :
            LET cells == {input[i].AirportKey, input[i].AirportName,
                          input[i].City, input[i].Country}
                missing == NaN \in cells
                present == \A v \in cells : v # NaN /\ strip(v) # ""
                key_ok == Len(input[i].AirportKey) = 3 /\ AllIn(input[i].AirportKey, UpperSet)
                in_clean == \E j \in DOMAIN df_clean : df_clean[j].idx = input[i].idx
                in_quarantine ==
                    \E j \in DOMAIN df_quarantine : df_quarantine[j].idx = input[i].idx
            IN /\ missing => (in_quarantine /\ ~in_clean)
               /\ (present /\ key_ok) => in_clean

\* C3: after the transformation of a transaction table, a numeric ID is
\* unchanged and the n-th non-numeric ID of a run that follows the numeric
\* ID g is g + n.
C3_SequentialRepair ==
    (pipeline = "facttravel" /\ pc = "VALIDATION") =>
        \A i \in DOMAIN input :
            LET ids == [k \in DOMAIN input |-> input[k].transactionid]
                g == CHOOSE p \in 1..(i - 1) :
                        is_numeric(ids[p]) /\ \A q \in (p + 1)..(i - 1) : ~is_numeric(ids[q])
            IN IF is_numeric(ids[i])
               THEN df[i].transactionid = ids[i]
               ELSE df[i].transactionid = str(int(ids[g]) + (i - g))

\* C4: the transaction cleaner never raises on the contents of the cells:
\* no run of it ends with the exception of the integer cast of the IDs.
C4_NeverRaisesOnBadData == ~(pipeline = "facttravel" /\ failure = "astype_int")

\* C5: in every entity run the phases entered so far are an initial part of
\* EXTRACT, TRANSFORMATION, VALIDATION, TRANSFORM-CLEANED, LOAD, SUMMARY (so
\* none is entered early, twice, or after a skipped one), and a completed
\* run has entered all six.
C5_PhaseOrder ==
    LET order == <<"EXTRACT", "TRANSFORMATION", "VALIDATION",
                   "TRANSFORM-CLEANED", "LOAD", "SUMMARY">>
    IN pipeline \in {"airports", "airlines", "flights", "facttravel"} =>
        /\ Len(phases) <= Len(order)
        /\ phases = SubSeq(order, 1, Len(phases))
        /\ outcome = "completed" => phases = order

\* C6: in the pipelines that upload row by row, no run is ended by the
\* exception of an upsert, and a run that reaches its summary has attempted
\* every clean row.
C6_FailedUpsertDoesNotAbort ==
    pipeline \in {"airlines", "flights", "facttravel"} =>
        /\ failure # "upsert"
        /\ summary.emitted => NextRow = Len(df_clean) + 1

\* C7: an airlines or flights run that read its table (with the key column)
\* and has ended, with no failure other than that of an upsert, has entered
\* SUMMARY and emitted its counts, whatever the staging tables did.
C7_SummaryAlways ==
    (/\ pipeline \in {"airlines", "flights"}
     /\ pc = "exit" /\ input # <<>>
     /\ "airlinekey" \in DOMAIN input[1] \/ pipeline = "flights"
     /\ failure \in {"", "upsert"}) =>
        summary.emitted /\ phases[Len(phases)] = "SUMMARY"

\* C8: a failure of a logging sink never ends the run.
C8_LoggingNeverAborts == failure # "log_file"

\* C9: when a run of the cleaning.py CLI has ended, its exit code is non-zero
\* exactly when the entity name is unknown or the input could not be extracted.
C9_ExitCode ==
    (pc = "exit" /\ pipeline # "process_pipeline") =>
        (exit_code # 0 <=> (pipeline \notin KnownPipelines \/ input = <<>>))

\* C10: when reading the input CSV fails, the run is over: no phase after
\* EXTRACT is entered, nothing is sent to the staging store, no CSV is
\* written and no summary is emitted.
C10_ExtractFailureHalts ==
    failure = "read_csv" =>
        /\ pc = "exit"
        /\ Len(phases) <= 1 /\ \A k \in DOMAIN phases : phases[k] = "EXTRACT"
        /\ staged = <<>> /\ files = {}
        /\ df_clean = <<>> /\ df_quarantine = <<>>
        /\ ~summary.emitted
\* A run of a phased pipeline whose read_csv failed inside EXTRACT
C10_Witness == failure = "read_csv" /\ phases = <<"EXTRACT">> /\ outcome = "returned"

\* C11: no quarantined row is sent to the staging store: every record of
\* every insert or upsert on a staging table is the record of a row of the
\* clean set that is not in the quarantine set.
C11_OnlyCleanRowsStaged ==
    LET record(row) ==
            CASE pipeline = "airports" -> column_map(row)
              [] pipeline = "airlines" -> airlines_record(row)
              [] pipeline = "flights" -> flights_record(row)
              [] pipeline = "facttravel" -> Restrict(row, travel_columns)
              [] OTHER -> Restrict(row, DOMAIN row \ {"idx"})
    IN \A c \in DOMAIN staged :
        staged[c].op \in {"insert", "upsert"} =>
            \A r \in DOMAIN staged[c].records :
                \E j \in DOMAIN df_clean :
                    /\ record(df_clean[j]) = staged[c].records[r]
                    /\ \A k \in DOMAIN df_quarantine :
                        df_quarantine[k].idx # df_clean[j].idx
\* Records were sent in a run that also quarantined a row
C11_Witness ==
    /\ df_quarantine # <<>>
    /\ \E c \in DOMAIN staged :
        staged[c].op \in {"insert", "upsert"} /\ staged[c].records # <<>>

C13_KeyRegeneration ==
    pipeline \in {"passengers", "process_pipeline"} =>
        /\ \A i \in DOMAIN df_clean : df_clean[i].passengerkey = "P" \o str(1000 + i)
        /\ \A i, j \in DOMAIN df_clean : i < j => df_clean[i].idx < df_clean[j].idx
\* Three rows survive with keys P1001, P1002, P1003, none of them read with
\* the key it now has
C13_Witness ==
    /\ pipeline \in {"passengers", "process_pipeline"}
    /\ Len(df_clean) = 3
    /\ <<df_clean[1].passengerkey, df_clean[2].passengerkey, df_clean[3].passengerkey>>
         = <<"P1001", "P1002", "P1003">>
    /\ \A i \in DOMAIN df_clean :
        input[df_clean[i].idx + 1].PassengerKey # df_clean[i].passengerkey

\* C14: once clean_passengers_data has split the table, of the rows that
\* pass every format rule and share their normalized (full name, email,
\* loyalty status) the first in row order is in the clean set and every
\* later one is in the quarantine set, whatever their passenger keys.
C14_PassengerDuplicates ==
    LET split == \/ pipeline = "passengers" /\ pc = "exit" /\ failure = ""
                 \/ pipeline = "process_pipeline" /\ pc # "EXTRACT" /\ failure # "read_csv"
        well_formed(i) == /\ FullName_valid(df[i].FullName)
                          /\ Email_valid(df[i].Email)
                          /\ df[i].LoyaltyStatus \in valid_statuses
        same(i, j) == /\ df[i].FullName = df[j].FullName
                      /\ df[i].Email = df[j].Email
                      /\ df[i].LoyaltyStatus = df[j].LoyaltyStatus
        in_clean(i) == \E n \in DOMAIN df_clean : df_clean[n].idx = df[i].idx
        in_quarantine(i) == \E n \in DOMAIN df_quarantine : df_quarantine[n].idx = df[i].idx
    IN split =>
        \A i \in DOMAIN df :
            well_formed(i) =>
                IF \E j \in 1..(i - 1) : same(i, j)
                THEN in_quarantine(i) /\ ~in_clean(i)
                ELSE in_clean(i) /\ ~in_quarantine(i)
\* Two well-formed rows read with different keys have the same normalized
\* triple: the first is clean, the second quarantined
C14_Witness ==
    /\ pipeline \in {"passengers", "process_pipeline"} /\ pc = "exit" /\ failure = ""
    /\ \E i, j \in DOMAIN df :
        /\ i < j
        /\ input[i].PassengerKey # input[j].PassengerKey
        /\ Restrict(df[i], dup_cols) = Restrict(df[j], dup_cols)
        /\ df[j].LoyaltyStatus \in valid_statuses
        /\ FullName_valid(df[j].FullName) /\ Email_valid(df[j].Email)
        /\ \E n \in DOMAIN df_clean : df_clean[n].idx = df[i].idx
        /\ \E n \in DOMAIN df_quarantine : df_quarantine[n].idx = df[j].idx

C16_QuarantineValues ==
    \A k \in DOMAIN df_quarantine :
        LET row == df_quarantine[k] IN
        /\ pipeline \in {"passengers", "process_pipeline"} => row = input[row.idx + 1]
        /\ pipeline \in {"airports", "airlines", "flights", "facttravel"} =>
                row = df[row.idx + 1]
        /\ pipeline = "airports" => row = airports_transform(input[row.idx + 1])
        /\ pipeline = "facttravel" => row = travel_transform(input, row.idx + 1)
\* A passenger row is quarantined with the values it was read with, which
\* differ from its normalized values
C16_Witness ==
    /\ pipeline \in {"passengers", "process_pipeline"}
    /\ \E k \in DOMAIN df_quarantine :
        /\ df_quarantine[k] = input[df_quarantine[k].idx + 1]
        /\ df_quarantine[k] # df[df_quarantine[k].idx + 1]

C18_AllianceLowercased ==
    pipeline = "airlines" =>
        LET rows == df_clean \o df_quarantine
            synonyms == {"", "nan", "none", "oneworld", "sky team", "skyteam",
                         "star alliance", "staralliance"}
        IN \A i \in DOMAIN rows :
            LET raw == input[rows[i].idx + 1]
                lowered == lower(strip(astype_str(raw.alliance)))
            IN ("alliance" \in DOMAIN raw /\ raw.alliance # NaN
                    /\ rows[i].airlinekey \notin {"VS", "AZ"} /\ lowered \in synonyms)
                => rows[i].alliance = alliance_mapping(lowered)

\* C19: after the transformation every airline row whose normalized key is
\* "VS" has alliance "SkyTeam" and every row whose normalized key is "AZ"
\* has alliance "None", whatever alliance the CSV gave and whatever the
\* synonym table maps it to.
C19_OverridePrecedence ==
    pipeline = "airlines" =>
        /\ \A i \in DOMAIN (df_clean \o df_quarantine) :
            LET row == (df_clean \o df_quarantine)[i] IN
            /\ row.airlinekey = "VS" => row.alliance = "SkyTeam"
            /\ row.airlinekey = "AZ" => row.alliance = "None"
        /\ \A c \in DOMAIN staged : \A r \in DOMAIN staged[c].records :
            /\ staged[c].records[r].airlinekey = "VS" => staged[c].records[r].alliance = "SkyTeam"
            /\ staged[c].records[r].airlinekey = "AZ" => staged[c].records[r].alliance = "None"
\* Rows VS and AZ whose CSV alliance the synonym table maps to another value
\* were transformed and sent with the overriding alliance
C19_Witness ==
    /\ pipeline = "airlines" /\ pc = "exit" /\ outcome = "completed"
    /\ Len(df_clean) + Len(df_quarantine) = Len(df)
    /\ \E i, j \in DOMAIN df :
        /\ df[i].airlinekey = "VS" /\ df[i].alliance = "SkyTeam"
        /\ "alliance" \in DOMAIN input[i]
        /\ alliance_mapping(input[i].alliance) = "Star Alliance"
        /\ df[j].airlinekey = "AZ" /\ df[j].alliance = "None"
        /\ alliance_mapping(input[j].alliance) = "SkyTeam"
    /\ \E c \in DOMAIN staged :
        /\ staged[c].op = "upsert"
        /\ staged[c].records[1].airlinekey = "AZ"
        /\ staged[c].records[1].alliance = "None"

\* C20: an airline row whose key or name cell is missing in the CSV is
\* quarantined, and a clean airline row has a key matching [A-Z0-9]{2,3},
\* a name in the allowed character set and a non-missing alliance.
C20_AirlineMissingQuarantined ==
    pipeline = "airlines" =>
        \A n \in DOMAIN df_clean :
            LET raw == input[df_clean[n].idx + 1] IN
            /\ raw.airlinekey # NaN
            /\ "airlinename" \in DOMAIN raw => raw.airlinename # NaN
            /\ airlinekey_valid(df_clean[n])
            /\ airlinename_valid(df_clean[n])
            /\ df_clean[n].alliance \notin {NaN, ""}

\* C21: a flight row is clean only if its flight key, origin key,
\* destination key and aircraft type are all present in the CSV: a row read
\* with a missing aircraft type, origin key or destination key is quarantined.
C21_FlightMissingQuarantined ==
    pipeline = "flights" =>
        \A n \in DOMAIN df_clean :
            LET raw == input[df_clean[n].idx + 1] IN
            /\ raw.FlightKey # NaN
            /\ raw.OriginAirportKey # NaN
            /\ raw.DestinationAirportKey # NaN
            /\ raw.AircraftType # NaN

\* C22: the total-amount rule of the transaction cleaner is exact equality
\* of cents, without tolerance: every clean row has ticket price + taxes +
\* baggage fees, each rounded to 2 decimals, equal to the rounded total
\* amount; a row read as 100.00 + 10.00 + 5.00 with total 115.01 is
\* quarantined.
C22_TotalExactEquality ==
    pipeline = "facttravel" =>
        /\ \A n \in DOMAIN df_clean :
            LET r == df_clean[n]
                cents(v) == IF v = np_nan THEN 0 ELSE v
            IN /\ r.totalamount # np_nan
               /\ cents(r.ticketprice) + cents(r.taxes) + cents(r.baggagefees) = r.totalamount
        /\ (pc = "TRANSFORM-CLEANED" \/ \E p \in DOMAIN phases : phases[p] = "TRANSFORM-CLEANED")
            => \A i \in DOMAIN input :
                (/\ input[i].ticketprice = "100.00" /\ input[i].taxes = "10.00"
                 /\ input[i].baggagefees = "5.00" /\ input[i].totalamount = "115.01")
                    => \E q \in DOMAIN df_quarantine : df_quarantine[q].idx = input[i].idx
\* A table with totals 115.00 and 115.01 over the same 100.00 + 10.00 + 5.00
\* was split: the first row is clean, the second quarantined
C22_Witness ==
    /\ pipeline = "facttravel"
    /\ \E n \in DOMAIN df_clean, q \in DOMAIN df_quarantine :
        /\ df_clean[n].totalamount = 11500
        /\ df_clean[n].ticketprice = 10000 /\ df_clean[n].taxes = 1000
        /\ df_clean[n].baggagefees = 500
        /\ input[df_quarantine[q].idx + 1].totalamount = "115.01"
        /\ df_quarantine[q].totalamount = 11501
        /\ df_quarantine[q].ticketprice = 10000 /\ df_quarantine[q].taxes = 1000
        /\ df_quarantine[q].baggagefees = 500

\* C23: when the reference keys of a flights run cannot be had (table
\* missing, table empty, or the fetch of the keys fails) the run skips the
\* fuzzy correction and goes on to VALIDATION, LOAD and SUMMARY: a flights
\* run ends in TRANSFORMATION only when its log file cannot be written,
\* never because the reference keys could not be fetched.
C23_ReferenceUnavailableDegrades ==
    (pipeline = "flights" /\ pc = "exit"
        /\ phases[Len(phases)] = "TRANSFORMATION") => failure = "log_file"

\* C24: fuzzy_fix(value, validKeys) returns value when validKeys is empty or
\* unavailable; otherwise it returns the first best-scoring member of
\* validKeys when that score is at least 85 and value when it is below 85.
\* A key one substitution away from a 7-character member (85.7) is
\* corrected, one substitution away from a 6-character member (83.3) is not.
C24_FuzzyFixThreshold ==
    (pipeline = "fuzzy_fix" /\ pc = "return") =>
        LET value == input[1].value
            validKeys == input[1].valid_list
            scores == {WRatio(value, validKeys[i]) : i \in DOMAIN validKeys}
            best == MaxOf(scores)
            member == validKeys[CHOOSE i \in DOMAIN validKeys :
                        /\ WRatio(value, validKeys[i]) = best
                        /\ \A j \in 1..(i - 1) : WRatio(value, validKeys[j]) < best]
        IN /\ validKeys = <<>> => df[1] = value
           /\ validKeys # <<>> => df[1] = IF best >= 85 * 1000 THEN member ELSE value
           /\ (value = "KJFXNYC" /\ validKeys = <<"KJFKNYC", "EGLLLON">>) => df[1] = "KJFKNYC"
           /\ (value = "KJFXNY" /\ validKeys = <<"KJFKNY">>) => df[1] = "KJFXNY"
           /\ (value = "JFX" /\ validKeys = <<"JFK", "LAX", "LHR">>) => df[1] = "JFX"
\* fuzzy_fix has replaced a key by a member that scores between 85 and 100
C24_Witness ==
    /\ pipeline = "fuzzy_fix" /\ pc = "return"
    /\ input[1].value = "KJFXNYC" /\ df[1] = "KJFKNYC"
    /\ WRatio("KJFXNYC", "KJFKNYC") \in (85 * 1000)..(86 * 1000)

\* C25: fix_flightkey_prefix returns the flight key unchanged when its
\* prefix, the first two alphanumeric characters uppercased, is a known
\* airline key; when fuzzy correction gives another prefix it returns that
\* prefix followed by the digits that end the original key, also for a key
\* with other characters among its leading ones and for a correction to a
\* 3-character airline key.
C25_PrefixCorrection ==
    (pipeline = "fix_flightkey_prefix" /\ pc = "return" /\ input[1].flightkey # NaN) =>
        LET flightkey == input[1].flightkey
            airlinekeys == input[1].airlinekeys
            chars == filter_chars(flightkey, AlnumSet)
            prefix == upper(SubSeq(chars, 1, 2))
            digits_from == CHOOSE i \in 1..(Len(flightkey) + 1) :
                /\ AllIn(SubSeq(flightkey, i, Len(flightkey)), DigitSet)
                /\ \A j \in 1..(i - 1) : ~AllIn(SubSeq(flightkey, j, Len(flightkey)), DigitSet)
            suffix == SubSeq(flightkey, digits_from, Len(flightkey))
            corrected == fuzzy_fix(prefix, airlinekeys)
        IN IF Len(chars) < 2 \/ airlinekeys = None \/ InList(prefix, airlinekeys)
              \/ corrected = prefix
           THEN df[1] = flightkey
           ELSE df[1] = corrected \o suffix

\* C26: the airport country normalizer maps every synonym of its table to
\* the canonical name after title-casing: a country read as USA, US, U.S.A.,
\* U.S. or United States Of America, in any letter case, becomes
\* "United States", and UK or U.K. becomes "United Kingdom".
C26_CountrySynonyms ==
    pipeline = "airports" =>
        LET rows == df_clean \o df_quarantine IN
        \A i \in DOMAIN rows :
            LET raw == input[rows[i].idx + 1].Country
                lowered == lower(astype_str(raw))
            IN /\ lowered \in {"usa", "us", "u.s.a.", "u.s.", "united states of america"}
                    => rows[i].Country = "United States"
               /\ lowered \in {"uk", "u.k."} => rows[i].Country = "United Kingdom"

\* C27: the alliance, country and name normalizers are idempotent: what a
\* normalizer returns for its own output is that output,
\* normalize(normalize(x)) = normalize(x) for every raw value x.
C27_Idempotent ==
    (pipeline \in {"normalize_alliance", "airports_transform"} /\ pc = "return")
        => df[2] = df[1]
\* A country and a name that the normalizers change were normalized twice
C27_Witness ==
    /\ pipeline = "airports_transform" /\ pc = "return"
    /\ input[1].Country = "u.s.a." /\ df[1].Country = "United States"
    /\ df[1].AirportName # input[1].AirportName
    /\ df[2] = df[1]

C29_WarehouseAfterUpsert ==
    pipeline = "process_pipeline" =>
        \A c \in DOMAIN staged :
            staged[c].op = "rpc" =>
                /\ df_clean # <<>>
                /\ c > 1
                /\ staged[c - 1].table = "staging_passengers"
                /\ staged[c - 1].op = "upsert"
                /\ staged[c - 1].result = "data"
                /\ Len(staged[c - 1].records) = Len(df_clean)
\* The procedure was triggered after a successful upsert of the clean rows
C29_Witness ==
    /\ pipeline = "process_pipeline" /\ pc = "exit"
    /\ Len(staged) = 2
    /\ staged[1].op = "upsert" /\ staged[1].result = "data" /\ staged[1].records # <<>>
    /\ staged[2].op = "rpc" /\ staged[2].table = "start_passenger_etl_pipeline"

=============================================================================
